---- MODULE Spec2Model ----
(***************************************************************************)
(* A model of the plugin ordering resolver of gourmet:                     *)
(*   utils/plugin-sort/gmsrc/PluginSorter.js  (PluginSorter.run)           *)
(*   utils/merge/lib/merge.js                 (merge, _merge)              *)
(* One run() is a walk through the stages of the pipeline; `pc` is the     *)
(* position inside run().                                                  *)
(***************************************************************************)
EXTENDS Integers, Sequences, FiniteSets, TLC

VARIABLES schema, defaultGroup, normalize, finalize, input, items, pc, result,
          error, calls, earlier, heap, trace, pipelines, rule, use

\* the state of a PluginSorter and of its run
sorterVars == <<schema, defaultGroup, normalize, finalize, input, items, pc,
                result, error, calls, earlier>>

\* the objects the callers of the merge package hold, and the calls they made
mergeVars == <<heap, trace>>

\* the pipelines of the build, the pipeline of the rule being resolved and
\* what resolving it gave
rulesVars == <<pipelines, rule, use>>

vars == <<sorterVars, mergeVars, rulesVars>>

----------------------------------------------------------------------------
(* JavaScript values.  A value is a record tagged with its type `t`; an    *)
(* object carries its own properties as a function from keys to values.    *)

Undef == [t |-> "undef"]
Null == [t |-> "null"]
Bool(b) == [t |-> "bool", v |-> b]
Num(n) == [t |-> "num", v |-> n]
Str(s) == [t |-> "str", v |-> s]
Arr(s) == [t |-> "arr", v |-> s]
Obj(f) == [t |-> "obj", v |-> f]

\* merge.assign(value): a Customizer whose function returns `value`
Custom(x) == [t |-> "custom", v |-> x]

\* An array that the caller of run() holds too.  `ref` tells which array it
\* is: a value taken over by reference keeps it, a copy is an Arr without.
Shared(s, ref) == [t |-> "arr", v |-> s, ref |-> ref]

SameArray(x, y) == "ref" \in DOMAIN x /\ "ref" \in DOMAIN y /\ x.ref = y.ref

NoProps == [p \in {} |-> Undef]

\* obj[prop]: a missing property reads as undefined
Get(obj, prop) == IF prop \in DOMAIN obj.v THEN obj.v[prop] ELSE Undef

\* ToBoolean
Truthy(x) ==
  CASE x.t = "undef" -> FALSE
    [] x.t = "null" -> FALSE
    [] x.t = "bool" -> x.v
    [] x.t = "num" -> x.v # 0
    [] x.t = "str" -> x.v # ""
    [] OTHER -> TRUE

isPlainObject(x) == x.t = "obj"

isArray(x) == x.t = "arr"

\* Array.prototype.concat: an array argument is spread, any other is appended
concat(arr, x) == Arr(arr.v \o (IF isArray(x) THEN x.v ELSE <<x>>))

\* omit(obj, prop): a copy of obj without the property
omit(obj, prop) == Obj([p \in DOMAIN obj.v \ {prop} |-> obj.v[p]])

----------------------------------------------------------------------------
(* merge.js *)

OBJECT == 1
ARRAY == 2
OTHER_ == 0

_getType(obj) ==
  IF isPlainObject(obj) THEN OBJECT
  ELSE IF isArray(obj) THEN ARRAY
  ELSE OTHER_

\* _merge with `nv = srcVal` in every case: no array is appended to and no
\* object is merged into
_merge_overwrites(des, src) ==
  LET assigned == {prop \in DOMAIN src.v : Get(src, prop).t # "undef"}
  IN  Obj([prop \in DOMAIN des.v \cup assigned |->
             IF prop \in assigned THEN src.v[prop] ELSE des.v[prop]])

RECURSIVE _merge(_, _)
_merge(des, src) ==
  LET nv(prop) ==
        LET srcVal == Get(src, prop)
            desVal == Get(des, prop)
            st == _getType(srcVal)
            dt == _getType(desVal)
        IN  IF srcVal.t = "custom" THEN srcVal.v
            ELSE IF dt = ARRAY /\ srcVal.t # "undef" THEN concat(desVal, srcVal)
            ELSE IF st = ARRAY /\ desVal.t # "undef" THEN concat(Arr(<<desVal>>), srcVal)
            ELSE IF st = OBJECT /\ dt = OBJECT THEN _merge(desVal, srcVal)
            ELSE IF st = OBJECT THEN _merge(Obj(NoProps), srcVal)
            ELSE srcVal
      assigned == {prop \in DOMAIN src.v :
                     Get(src, prop).t = "custom" \/ nv(prop).t # "undef"}
  IN  Obj([prop \in DOMAIN des.v \cup assigned |->
             IF prop \in assigned THEN nv(prop) ELSE des.v[prop]])

\* merge(des, ...args): falsy sources are skipped
RECURSIVE merge(_, _)
merge(des, args) ==
  IF args = <<>> THEN des
  ELSE merge(IF Truthy(Head(args)) THEN _merge(des, Head(args)) ELSE des,
             Tail(args))

\* An object a caller holds is a cell of the heap: its enumerable fields
\* `val` and whether it carries the hidden property __safeToWrite__.  A
\* reference to it is its index in the heap.
Ref(i) == [t |-> "ref", v |-> i]
Cell(val, safe) == [val |-> val, safe |-> safe]

\* the value an argument stands for
Deref(h, arg) == IF arg.t = "ref" THEN h[arg.v].val ELSE arg

\* the loop of merge.intact over args[idx..]: `des` is undefined or a
\* reference; the first truthy argument becomes des as it is, a des that is
\* safe to write is merged into in place, any other des is replaced by a new
\* object marked __safeToWrite__ holding merge(obj, des, src)
RECURSIVE intactLoop(_, _, _)
intactLoop(h, des, args) ==
  IF args = <<>> THEN [heap |-> h, ret |-> des]
  ELSE LET src == Head(args) IN
       IF ~Truthy(src) THEN intactLoop(h, des, Tail(args))
       ELSE IF ~Truthy(des) THEN intactLoop(h, src, Tail(args))
       ELSE IF h[des.v].safe
       THEN intactLoop([h EXCEPT ![des.v].val = merge(@, <<Deref(h, src)>>)],
                       des, Tail(args))
       ELSE intactLoop(Append(h, Cell(merge(Obj(NoProps), <<h[des.v].val, Deref(h, src)>>), TRUE)),
                       Ref(Len(h) + 1), Tail(args))

\* merge.intact(...args)
intact(h, args) == intactLoop(h, Undef, args)

----------------------------------------------------------------------------
(* PluginSorter.js *)

CONSTRAINT_SCALE == 1000

\* depth of the call stack at which the engine raises RangeError
StackLimit == 16

\* the normalize of _loaders: a copy of the item named by its `name`, else by
\* its `loader` when that is a string; the copy of a string has no name
normalizeLoader(item) ==
  IF ~isPlainObject(item) THEN Obj([p \in {"name"} |-> Undef])
  ELSE Obj([p \in DOMAIN item.v \cup {"name"} |->
              IF p # "name" THEN item.v[p]
              ELSE IF Truthy(Get(item, "name")) THEN Get(item, "name")
              ELSE IF Get(item, "loader").t = "str" THEN Get(item, "loader")
              ELSE Undef])

\* context.plugins.runWaterfallSync("build:webpack:loader_options:...", value):
\* no plugin hooks into the options of a loader
runWaterfallSync(value) == value

\* the finalize of _loaders: `options ? {loader, options} : loader`
finalizeLoader(item) ==
  LET loader == IF Truthy(Get(item, "loader")) THEN Get(item, "loader") ELSE Get(item, "name")
      options == runWaterfallSync(Get(item, "options"))
  IN  IF Truthy(options)
      THEN Obj([p \in {"loader", "options"} |-> IF p = "loader" THEN loader ELSE options])
      ELSE loader

\* what a callback gives when it throws instead of returning: the error
Thrown(code) == [t |-> "thrown", v |-> code]

\* the normalize of getWebpackPlugins
normalizePlugin(item) ==
  IF ~isPlainObject(item) \/ ~Truthy(Get(item, "name")) \/ Get(item, "name").t # "str"
  THEN Thrown("INVALID_WEBPACK_PLUGIN")
  ELSE item

\* the modules that require() finds
Installed == {"a"}

\* require(name)
require(name) ==
  IF name \in Installed THEN Str(name) ELSE Thrown("MODULE_NOT_FOUND")

\* the finalize of getWebpackPlugins; no plugin of the inputs is a function
finalizePlugin(item) ==
  IF Truthy(Get(item, "plugin")) THEN Get(item, "plugin")
  ELSE require(Get(item, "name").v)

\* this._normalize(item): the default of the constructor, `item => item`, or
\* a normalizer of a caller: `typeof item === "string" ? {name: item} : item`,
\* or that of _loaders, or that of getWebpackPlugins
_normalize(item) ==
  CASE normalize = "named" /\ item.t = "str" -> Obj([p \in {"name"} |-> item])
    [] normalize = "loader" -> normalizeLoader(item)
    [] normalize = "plugin" -> normalizePlugin(item)
    [] OTHER -> item

\* this._finalize(item): the default of the constructor, `item => item`, or
\* a finalizer of a caller: `item => item.out`, or that of _loaders, or that
\* of getWebpackPlugins
_finalize(item) ==
  CASE finalize = "out" -> Get(item, "out")
    [] finalize = "loader" -> finalizeLoader(item)
    [] finalize = "plugin" -> finalizePlugin(item)
    [] OTHER -> item

\* the outcome of a stage: the array it returns, or the error it throws
Returns(out) == [threw |-> "", out |-> out]
Throws(msg) == [threw |-> msg, out |-> <<>>]

RECURSIVE _normalizeLoop(_, _, _)

\* the loop dropping what it cannot use instead of throwing
_normalizeLoop_skipsInvalid(its, idx, output) ==
  IF ~(idx < Len(its)) THEN Returns(output)
  ELSE LET item == _normalize(its[idx + 1]) IN
       IF Truthy(item) /\ isPlainObject(item) /\ Get(item, "name").t = "str"
       THEN _normalizeLoop(its, idx + 1, Append(output, item))
       ELSE _normalizeLoop(its, idx + 1, output)

\* the loop throwing for every value that is not an item, falsy or not
_normalizeLoop_falsyInvalid(its, idx, output) ==
  IF ~(idx < Len(its)) THEN Returns(output)
  ELSE LET item == _normalize(its[idx + 1]) IN
       IF ~isPlainObject(item) THEN Throws("'normalize' should return an object")
       ELSE IF Get(item, "name").t # "str" THEN Throws("Name is required")
       ELSE _normalizeLoop(its, idx + 1, Append(output, item))

\* the loop taking what a throwing normalize gives for a value returned
_normalizeLoop_catches(its, idx, output) ==
  IF ~(idx < Len(its)) THEN Returns(output)
  ELSE LET item == _normalize(its[idx + 1]) IN
       IF Truthy(item) THEN
         IF ~isPlainObject(item) THEN Throws("'normalize' should return an object")
         ELSE IF Get(item, "name").t # "str" THEN Throws("Name is required")
         ELSE _normalizeLoop(its, idx + 1, Append(output, item))
       ELSE _normalizeLoop(its, idx + 1, output)

_normalizeLoop(its, idx, output) ==
  IF ~(idx < Len(its)) THEN Returns(output)
  ELSE LET item == _normalize(its[idx + 1]) IN
       IF item.t = "thrown" THEN Throws(item.v)
       ELSE IF Truthy(item) THEN
         IF ~isPlainObject(item) THEN Throws("'normalize' should return an object")
         ELSE IF Get(item, "name").t # "str" THEN Throws("Name is required")
         ELSE _normalizeLoop(its, idx + 1, Append(output, item))
       ELSE _normalizeLoop(its, idx + 1, output)

_normalizeItems(its) == _normalizeLoop(its, 0, <<>>)

\* the calls of a loop that tests `if (items[idx])` before `this._normalize`
_normalizeCalls_truthyOnly(its) ==
  LET truthy == SelectSeq(its, Truthy)
  IN  [k \in 1..Len(truthy) |-> <<"normalize", truthy[k]>>]

\* the calls of this._normalize the loop makes: one for each element, in
\* order, that it reaches without having thrown
_normalizeCalls(its) ==
  LET reached == {k \in 1..Len(its) : _normalizeItems(SubSeq(its, 1, k - 1)).threw = ""}
  IN  [k \in 1..Cardinality(reached) |-> <<"normalize", its[k]>>]

\* _applySchema merging the name-keyed entry before the wildcard entry
_applySchema_nameFirst(its) ==
  LET s == Get(schema, "*")
      base == Obj([p \in {"after", "before"} |-> Arr(<<>>)])
  IN  [i \in 1..Len(its) |->
         LET item == its[i]
             name == Get(item, "name").v
         IN  IF ~Truthy(Get(item, "virtual"))
             THEN merge(base, <<Get(schema, name), s, item>>)
             ELSE merge(base, <<item>>)]

\* _applySchema giving the schema entries to the virtual items too
_applySchema_virtualsToo(its) ==
  LET s == Get(schema, "*")
      base == Obj([p \in {"after", "before"} |-> Arr(<<>>)])
  IN  [i \in 1..Len(its) |->
         merge(base, <<s, Get(schema, Get(its[i], "name").v), its[i]>>)]

_applySchema(its) ==
  LET s == Get(schema, "*")
      base == Obj([p \in {"after", "before"} |-> Arr(<<>>)])
  IN  [i \in 1..Len(its) |->
         LET item == its[i]
             name == Get(item, "name").v
         IN  IF ~Truthy(Get(item, "virtual"))
             THEN merge(base, <<s, Get(schema, name), item>>)
             ELSE merge(base, <<item>>)]

RECURSIVE _mergeVirtualsLoop(_, _, _, _)

\* the loop of _mergeVirtuals with `virtual[name] = item`: a later virtual
\* item replaces the accumulated patch
_mergeVirtualsLoop_overwrites(its, idx, virtual, output) ==
  IF ~(idx < Len(its)) THEN output
  ELSE
    LET item == its[idx + 1]
        name == Get(item, "name").v
        hasV == name \in DOMAIN virtual
    IN  IF Truthy(Get(item, "virtual")) THEN
          LET it == omit(item, "virtual")
              nvirt == [n \in DOMAIN virtual \cup {name} |->
                          IF n = name THEN it ELSE virtual[n]]
              nout == [j \in 1..Len(output) |->
                          IF Get(output[j], "name").v = name
                          THEN merge(output[j], <<it>>)
                          ELSE output[j]]
          IN  _mergeVirtualsLoop(its, idx + 1, nvirt, nout)
        ELSE
          _mergeVirtualsLoop(its, idx + 1, virtual,
            Append(output, IF hasV THEN merge(Obj(NoProps), <<virtual[name], item>>)
                           ELSE item))

\* the loop of _mergeVirtuals; `virtual` maps a name to its accumulated patch
_mergeVirtualsLoop(its, idx, virtual, output) ==
  IF ~(idx < Len(its)) THEN output
  ELSE
    LET item == its[idx + 1]
        name == Get(item, "name").v
        hasV == name \in DOMAIN virtual
    IN  IF Truthy(Get(item, "virtual")) THEN
          LET it == omit(item, "virtual")
              nvirt == [n \in DOMAIN virtual \cup {name} |->
                          IF n = name
                          THEN (IF hasV THEN merge(virtual[name], <<it>>) ELSE it)
                          ELSE virtual[n]]
              nout == [j \in 1..Len(output) |->
                          IF Get(output[j], "name").v = name
                          THEN merge(output[j], <<it>>)
                          ELSE output[j]]
          IN  _mergeVirtualsLoop(its, idx + 1, nvirt, nout)
        ELSE
          _mergeVirtualsLoop(its, idx + 1, virtual,
            Append(output, IF hasV THEN merge(Obj(NoProps), <<virtual[name], item>>)
                           ELSE item))

\* _mergeVirtuals dropping the virtual items without merging them
_mergeVirtuals_dropped(its) == SelectSeq(its, LAMBDA item : ~Truthy(Get(item, "virtual")))

\* _mergeVirtuals leaving the array as it is
_mergeVirtuals_kept(its) == its

\* _mergeVirtuals passing on every field of a virtual item but `disable`
_mergeVirtuals_enabled(its) ==
  _mergeVirtualsLoop([i \in 1..Len(its) |->
                        IF Truthy(Get(its[i], "virtual")) THEN omit(its[i], "disable")
                        ELSE its[i]], 0, NoProps, <<>>)

_mergeVirtuals(its) == _mergeVirtualsLoop(its, 0, NoProps, <<>>)

\* _excludeDisabled leaving the array as it is
_excludeDisabled_kept(its) == its

_excludeDisabled(its) == SelectSeq(its, LAMBDA item : ~Truthy(Get(item, "disable")))

----------------------------------------------------------------------------
(* _getConstraintOrders.  Indices are the 0-based indices of the code; the *)
(* tables lowIndices/highIndices/orders are partial: a key that was never  *)
(* assigned reads as undefined.                                            *)

At(its, idx) == its[idx + 1]

Indices(its) == 0..(Len(its) - 1)

NameAt(its, idx) == Get(At(its, idx), "name").v

\* lowIndices = {"name": idx, ...}: lowest index of the named plugin
lowIndicesOf(its) ==
  [name \in {NameAt(its, i) : i \in Indices(its)} |->
     CHOOSE i \in Indices(its) :
       /\ NameAt(its, i) = name
       /\ \A j \in Indices(its) : NameAt(its, j) = name => i <= j]

\* highIndices = {"name": idx, ...}: highest index of the named plugin
highIndicesOf(its) ==
  [name \in {NameAt(its, i) : i \in Indices(its)} |->
     CHOOSE i \in Indices(its) :
       /\ NameAt(its, i) = name
       /\ \A j \in Indices(its) : NameAt(its, j) = name => i >= j]

\* "Convert `before` to `after`": every item, every target of its `before`,
\* in order, pushes the item's name onto the `after` array of the target's
\* lowest occurrence.  The arrays pushed to are the items' own `after` arrays.
RECURSIVE _convertBefore(_, _, _, _, _)
_convertBefore(its, lowIndices, i, k, after) ==
  IF ~(i < Len(its)) THEN after
  ELSE LET before == Get(At(its, i), "before").v IN
       IF k > Len(before) THEN _convertBefore(its, lowIndices, i + 1, 1, after)
       ELSE LET target == before[k].v IN
            IF target \in DOMAIN lowIndices
            THEN _convertBefore(its, lowIndices, i, k + 1,
                   [after EXCEPT ![lowIndices[target]] =
                      Append(@, Get(At(its, i), "name"))])
            ELSE _convertBefore(its, lowIndices, i, k + 1, after)

\* if (orders[idx]): a missing entry and the number 0 are both falsy
OrderSet(orders, idx) == idx \in DOMAIN orders /\ orders[idx] # 0

PutOrder(orders, idx, val) ==
  [i \in DOMAIN orders \cup {idx} |-> IF i = idx THEN val ELSE orders[i]]

\* `max` is <<>> while undefined and <<n>> once assigned
MaxTruthy(max) == max # <<>> /\ max[1] # 0

\* _init(idx) and the af.forEach callback inside it.  Both return the
\* updated memo `orders`; `overflow` tells that the recursion went deeper
\* than the call stack allows.
RECURSIVE _init(_, _, _, _, _)
RECURSIVE _initForEach(_, _, _, _, _, _, _, _)

\* the callback taking a name that no item has for a plugin placed after
\* all the items
_initForEach_unknownLast(af, k, idx, max, orders, after, highIndices, depth) ==
  IF k > Len(af) THEN [orders |-> orders, max |-> max, overflow |-> FALSE]
  ELSE
    LET target == af[k].v
        r == IF target \in DOMAIN highIndices
             THEN _init(highIndices[target], orders, after, highIndices, depth + 1)
             ELSE [orders |-> orders,
                   val |-> Cardinality(DOMAIN after) * CONSTRAINT_SCALE,
                   overflow |-> FALSE]
    IN  IF r.overflow THEN [orders |-> r.orders, max |-> max, overflow |-> TRUE]
        ELSE IF ~MaxTruthy(max) \/ r.val > max[1]
        THEN _initForEach(af, k + 1, idx, <<r.val>>,
                          PutOrder(r.orders, idx, r.val + 1), after, highIndices, depth)
        ELSE _initForEach(af, k + 1, idx, max, r.orders, after, highIndices, depth)

_initForEach(af, k, idx, max, orders, after, highIndices, depth) ==
  IF k > Len(af) THEN [orders |-> orders, max |-> max, overflow |-> FALSE]
  ELSE
    LET target == af[k].v IN
    IF target \in DOMAIN highIndices THEN
      LET r == _init(highIndices[target], orders, after, highIndices, depth + 1) IN
      IF r.overflow THEN [orders |-> r.orders, max |-> max, overflow |-> TRUE]
      ELSE IF ~MaxTruthy(max) \/ r.val > max[1]
      THEN _initForEach(af, k + 1, idx, <<r.val>>,
                        PutOrder(r.orders, idx, r.val + 1), after, highIndices, depth)
      ELSE _initForEach(af, k + 1, idx, max, r.orders, after, highIndices, depth)
    ELSE _initForEach(af, k + 1, idx, max, orders, after, highIndices, depth)

_init(idx, orders, after, highIndices, depth) ==
  IF depth > StackLimit THEN [orders |-> orders, val |-> 0, overflow |-> TRUE]
  ELSE IF OrderSet(orders, idx)
  THEN [orders |-> orders, val |-> orders[idx], overflow |-> FALSE]
  ELSE
    LET af == after[idx] IN
    IF Len(af) # 0 THEN
      LET r == _initForEach(af, 1, idx, <<>>,
                            PutOrder(orders, idx, idx * CONSTRAINT_SCALE),
                            after, highIndices, depth)
          val == IF MaxTruthy(r.max) THEN r.max[1] + 1 ELSE idx * CONSTRAINT_SCALE
      IN  IF r.overflow THEN [orders |-> r.orders, val |-> 0, overflow |-> TRUE]
          ELSE [orders |-> PutOrder(r.orders, idx, val), val |-> val,
                overflow |-> FALSE]
    ELSE [orders |-> PutOrder(orders, idx, idx * CONSTRAINT_SCALE),
          val |-> idx * CONSTRAINT_SCALE, overflow |-> FALSE]

\* items.forEach((item, idx) => _init(idx))
RECURSIVE _initAll(_, _, _, _, _)
_initAll(idx, n, orders, after, highIndices) ==
  IF ~(idx < n) THEN [orders |-> orders, overflow |-> FALSE]
  ELSE LET r == _init(idx, orders, after, highIndices, 1) IN
       IF r.overflow THEN [orders |-> r.orders, overflow |-> TRUE]
       ELSE _initAll(idx + 1, n, r.orders, after, highIndices)

\* _getConstraintOrders without the conversion of `before` to `after`
_getConstraintOrders_noBefore(its) ==
  LET highIndices == highIndicesOf(its)
      after == [idx \in Indices(its) |-> Get(At(its, idx), "after").v]
      r == _initAll(0, Len(its), NoProps, after, highIndices)
  IN  [orders |-> r.orders, items |-> its, overflow |-> r.overflow]

\* The result: the table of orders, the items as the pushes left them, and
\* whether the call stack overflowed.
_getConstraintOrders(its) ==
  LET lowIndices == lowIndicesOf(its)
      highIndices == highIndicesOf(its)
      after0 == [idx \in Indices(its) |-> Get(At(its, idx), "after").v]
      after == _convertBefore(its, lowIndices, 0, 1, after0)
      r == _initAll(0, Len(its), NoProps, after, highIndices)
  IN  [orders |-> r.orders,
       items |-> [i \in 1..Len(its) |->
                    [its[i] EXCEPT !.v = [@ EXCEPT !["after"] = [@ EXCEPT !.v = after[i - 1]]]]],
       overflow |-> r.overflow]

----------------------------------------------------------------------------
(* _sortItems *)

\* a[0].group || this._defaultGroup
groupOf(item) ==
  IF Truthy(Get(item, "group")) THEN Get(item, "group").v ELSE defaultGroup

\* compare, sorting the constraint orders downwards
compare_descending(a, b) ==
  LET ag == groupOf(a[1])
      bg == groupOf(b[1])
  IN  IF ag # bg THEN ag - bg
      ELSE IF a[2] # b[2] THEN b[2] - a[2]
      ELSE a[3] - b[3]

\* compare, leaving the constraint orders out
compare_ignoresOrder(a, b) ==
  LET ag == groupOf(a[1])
      bg == groupOf(b[1])
  IN  IF ag # bg THEN ag - bg
      ELSE a[3] - b[3]

\* the comparator handed to list.sort; a and b are [item, order, idx]
compare(a, b) ==
  LET ag == groupOf(a[1])
      bg == groupOf(b[1])
  IN  IF ag # bg THEN ag - bg
      ELSE IF a[2] # b[2] THEN a[2] - b[2]
      ELSE a[3] - b[3]

\* an insertion that writes the element over the one it should go in front of
RECURSIVE insert_overwrites(_, _)
insert_overwrites(sorted, x) ==
  IF sorted = <<>> THEN <<x>>
  ELSE IF compare(x, Head(sorted)) < 0 THEN <<x, x>> \o Tail(sorted)
  ELSE <<Head(sorted)>> \o insert_overwrites(Tail(sorted), x)

\* Array.prototype.sort: a stable sort by the comparator
RECURSIVE insert(_, _)
insert(sorted, x) ==
  IF sorted = <<>> THEN <<x>>
  ELSE IF compare(x, Head(sorted)) < 0 THEN <<x>> \o sorted
  ELSE <<Head(sorted)>> \o insert(Tail(sorted), x)

RECURSIVE sort(_)
sort(list) ==
  IF list = <<>> THEN <<>>
  ELSE insert(sort(SubSeq(list, 1, Len(list) - 1)), list[Len(list)])

\* An array as the pushes of _getConstraintOrders left it: when it is the
\* `after` array of one of the items, it has what was pushed onto that.
AsLeft(x, its) ==
  IF \E j \in 1..Len(its) : SameArray(x, Get(its[j], "after"))
  THEN Get(its[CHOOSE j \in 1..Len(its) : SameArray(x, Get(its[j], "after"))], "after")
  ELSE x

\* the argument of run() as the caller finds it after _getConstraintOrders
_inputAfterPushes(in, its) ==
  Arr([k \in 1..Len(in.v) |->
         IF isPlainObject(in.v[k]) /\ "after" \in DOMAIN in.v[k].v
         THEN Obj([in.v[k].v EXCEPT !["after"] =
                     IF @.t = "custom" THEN Custom(AsLeft(@.v, its)) ELSE AsLeft(@, its)])
         ELSE in.v[k]])

_sortItems(its) ==
  LET c == _getConstraintOrders(its) IN
  IF c.overflow THEN Throws("Maximum call stack size exceeded")
  ELSE LET list == [i \in 1..Len(its) |-> <<c.items[i], c.orders[i - 1], i - 1>>]
           sorted == sort(list)
       IN  Returns([i \in 1..Len(its) |-> sorted[i][1]])

\* _finalizeItems filtering out every falsy result
_finalizeItems_dropsFalsy(its) ==
  SelectSeq([i \in 1..Len(its) |-> _finalize(its[i])], LAMBDA item : Truthy(item))

_finalizeItems(its) ==
  SelectSeq([i \in 1..Len(its) |-> _finalize(its[i])], LAMBDA item : item.t # "undef")

\* the items at which this._finalize throws
FinalizeThrowsAt(its) == {i \in 1..Len(its) : _finalize(its[i]).t = "thrown"}

\* the error that leaves items.map: that of the first call of this._finalize
\* that throws, "" if none does
_finalizeThrown(its) ==
  IF FinalizeThrowsAt(its) = {} THEN ""
  ELSE _finalize(its[CHOOSE i \in FinalizeThrowsAt(its) : \A j \in FinalizeThrowsAt(its) : i <= j]).v

\* the calls of this._finalize that items.map makes: one for each item, up
\* to the first that throws
_finalizeCalls(its) ==
  [i \in 1..(IF FinalizeThrowsAt(its) = {} THEN Len(its)
              ELSE CHOOSE i \in FinalizeThrowsAt(its) : \A j \in FinalizeThrowsAt(its) : i <= j)
     |-> <<"finalize", its[i]>>]

----------------------------------------------------------------------------
(* run(items), one stage at a time *)

\* run() without the test of its argument: what is not an array has no
\* elements to loop over
Run_unchecked ==
  /\ pc = "run"
  /\ pc' = "normalize"
  /\ items' = IF isArray(input) THEN input.v ELSE <<>>
  /\ UNCHANGED <<schema, defaultGroup, normalize, finalize, earlier, input, result, error, calls>>
  /\ UNCHANGED <<mergeVars, rulesVars>>

\* if (!Array.isArray(items)) throw Error("Items must be an array")
Run ==
  /\ pc = "run"
  /\ IF isArray(input)
     THEN /\ pc' = "normalize"
          /\ items' = input.v
          /\ error' = error
     ELSE /\ pc' = "threw"
          /\ error' = "Items must be an array"
          /\ items' = items
  /\ UNCHANGED <<schema, defaultGroup, normalize, finalize, earlier, input, result, calls>>
  /\ UNCHANGED <<mergeVars, rulesVars>>

\* items = this._normalizeItems(items)
NormalizeItems ==
  /\ pc = "normalize"
  /\ LET r == _normalizeItems(items) IN
     IF r.threw = ""
     THEN /\ pc' = "schema"
          /\ items' = r.out
          /\ error' = error
     ELSE /\ pc' = "threw"
          /\ error' = r.threw
          /\ items' = items
  /\ calls' = calls \o _normalizeCalls(items)
  /\ UNCHANGED <<schema, defaultGroup, normalize, finalize, earlier, input, result>>
  /\ UNCHANGED <<mergeVars, rulesVars>>

\* items = this._applySchema(items)
ApplySchema ==
  /\ pc = "schema"
  /\ items' = _applySchema(items)
  /\ pc' = "virtuals"
  /\ UNCHANGED <<schema, defaultGroup, normalize, finalize, earlier, input, result, error, calls>>
  /\ UNCHANGED <<mergeVars, rulesVars>>

\* items = this._mergeVirtuals(items)
MergeVirtuals ==
  /\ pc = "virtuals"
  /\ items' = _mergeVirtuals(items)
  /\ pc' = "disabled"
  /\ UNCHANGED <<schema, defaultGroup, normalize, finalize, earlier, input, result, error, calls>>
  /\ UNCHANGED <<mergeVars, rulesVars>>

\* items = this._excludeDisabled(items)
ExcludeDisabled ==
  /\ pc = "disabled"
  /\ items' = _excludeDisabled(items)
  /\ pc' = "sort"
  /\ UNCHANGED <<schema, defaultGroup, normalize, finalize, earlier, input, result, error, calls>>
  /\ UNCHANGED <<mergeVars, rulesVars>>

\* items = this._sortItems(items)
SortItems ==
  /\ pc = "sort"
  /\ LET r == _sortItems(items) IN
     IF r.threw = ""
     THEN /\ pc' = "finalize"
          /\ items' = r.out
          /\ error' = error
     ELSE /\ pc' = "threw"
          /\ error' = r.threw
          /\ items' = items
  /\ input' = _inputAfterPushes(input, _getConstraintOrders(items).items)
  /\ UNCHANGED <<schema, defaultGroup, normalize, finalize, earlier, result, calls>>
  /\ UNCHANGED <<mergeVars, rulesVars>>

\* return this._finalizeItems(items)
FinalizeItems ==
  /\ pc = "finalize"
  /\ IF _finalizeThrown(items) = ""
     THEN /\ pc' = "done"
          /\ result' = _finalizeItems(items)
          /\ error' = error
     ELSE /\ pc' = "threw"
          /\ error' = _finalizeThrown(items)
          /\ result' = result
  /\ calls' = calls \o _finalizeCalls(items)
  /\ UNCHANGED <<schema, defaultGroup, normalize, finalize, earlier, input, items>>
  /\ UNCHANGED <<mergeVars, rulesVars>>

Next ==
  \/ Run
  \/ NormalizeItems
  \/ ApplySchema
  \/ MergeVirtuals
  \/ ExcludeDisabled
  \/ SortItems
  \/ FinalizeItems

----------------------------------------------------------------------------
(* The inputs of the checked runs *)

\* the largest number of items handed to run()
MaxItems == 3

\* the largest number of after/before references in one input
MaxRefs == 3

AllNames == <<"a", "b", "c", "d", "e", "f", "z">>

\* the subsets of S of at most k elements
RECURSIVE UpTo(_, _)
UpTo(S, k) ==
  IF k = 0 THEN {{}}
  ELSE LET prev == UpTo(S, k - 1) IN
       prev \cup {s \cup {e} : s \in prev, e \in S}

\* An input is described by a set of marks <<i, field, arg>>: item i carries
\* `field`; for after/before, arg is one of the names listed.

\* the names item i lists in `field`, in the order of AllNames
Targets(E, i, field) ==
  LET pick == SelectSeq(AllNames, LAMBDA t : <<i, field, t>> \in E)
  IN  Arr([k \in 1..Len(pick) |-> Str(pick[k])])

Marked(E, i, field) == \E m \in E : m[1] = i /\ m[2] = field

\* item i as the marks describe it; item i is named names[i]
ItemOf(E, i, names) ==
  Obj([p \in {"name"} \cup {f \in {"after", "before", "group", "virtual", "disable", "a", "b", "id"} :
                              Marked(E, i, f)}
       |-> CASE p = "name" -> Str(names[i])
             [] p \in {"after", "before"} -> Targets(E, i, p)
             [] p = "group" -> Num((CHOOSE m \in E : m[1] = i /\ m[2] = "group")[3])
             [] p = "virtual" -> Bool(TRUE)
             [] p = "disable" -> Bool((CHOOSE m \in E : m[1] = i /\ m[2] = "disable")[3])
             [] p = "a" -> Num(i)
             [] p = "b" -> Num(10 + i)
             [] p = "id" -> Num(i)])

InputOf(E, n, names) == Arr([i \in 1..n |-> ItemOf(E, i, names)])

Edges(n, fields) == (1..n) \X fields \X {AllNames[k] : k \in 1..n}

\* the references of Edges and those to names no item of the input has
EdgesWith(n, fields, others) ==
  (1..n) \X fields \X ({AllNames[k] : k \in 1..n} \cup others)

\* no rule is being resolved
Pending == [threw |-> "pending", out |-> <<>>]
NoRules == pipelines = <<>> /\ rule = "" /\ use = Pending

\* before run() is called
InitRun ==
  /\ items = <<>>
  /\ result = <<>>
  /\ error = ""
  /\ calls = <<>>
  /\ earlier = <<>>
  /\ pc = "run"
  /\ heap = <<>>
  /\ trace = <<>>
  /\ NoRules

\* constructor defaults: normalize and finalize return the item, schema = {},
\* defaultGroup = 500
InitConfig ==
  /\ normalize = "item"
  /\ finalize = "item"
  /\ schema = Obj(NoProps)
  /\ defaultGroup = 500
  /\ InitRun

\* items with distinct names, some in group 100, and up to MaxRefs marks
InitOrder ==
  /\ InitConfig
  /\ \E n \in 0..MaxItems :
       \E E \in UpTo(Edges(n, {"after", "before"}) \cup ((1..n) \X {"group"} \X {100}), MaxRefs) :
         input = InputOf(E, n, AllNames)

SpecOrder == InitOrder /\ [][Next]_vars

\* the largest number of `before` references in one input of InitBefore
MaxBefores == 4

\* items with distinct names, up to MaxBefores `before` references and at
\* most one item that lists the first name in its `after`
InitBefore ==
  /\ InitConfig
  /\ \E n \in 0..MaxItems :
       \E E \in UpTo(Edges(n, {"before"}), MaxBefores) :
         \E A \in {{}} \cup {{<<i, "after", AllNames[1]>>} : i \in 1..n} :
           input = InputOf(E \cup A, n, AllNames)

SpecBefore == InitBefore /\ [][Next]_vars

\* the largest number of after/before references in one input of InitGroup
MaxGroupRefs == 1

\* the groups an item of InitGroup may state; -1 stands for stating none
GroupChoices == {-1, 0, 100}

\* items with distinct names, each in a group of its own choice, and up to
\* MaxGroupRefs references
InitGroup ==
  /\ InitConfig
  /\ \E n \in 0..MaxItems :
       \E g \in [1..n -> GroupChoices] :
         \E E \in UpTo(Edges(n, {"after", "before"}), MaxGroupRefs) :
           input = InputOf(E \cup {<<i, "group", g[i]>> : i \in {k \in 1..n : g[k] # -1}},
                           n, AllNames)

SpecGroup == InitGroup /\ [][Next]_vars

\* the names the items of InitPlain and InitVirtual draw from
PlainNames == {"a", "b", "c"}

\* items that carry a name, their position as `id` and possibly a field `a`:
\* no group, no after, no before, not virtual, not disabled
InitPlain ==
  /\ InitConfig
  /\ \E n \in 0..MaxItems :
       \E nm \in [1..n -> PlainNames] :
         \E A \in SUBSET (1..n) :
           input = InputOf({<<i, "id", 0>> : i \in 1..n} \cup {<<i, "a", 0>> : i \in A},
                           n, nm)

SpecPlain == InitPlain /\ [][Next]_vars

\* the largest number of marks in one input of InitVirtual
MaxMarks == 4

\* real and virtual items named "x" or "y"; a mark makes an item virtual,
\* names it "y", gives it the field `a` or `b`, or sets its `disable` to
\* true or false.  Every real item carries its position as `id`.
InitVirtual ==
  /\ InitConfig
  /\ \E n \in 0..MaxItems :
       \E E \in UpTo(((1..n) \X {"virtual", "y", "a", "b"} \X {0})
                       \cup ((1..n) \X {"disable"} \X {TRUE, FALSE}), MaxMarks) :
         /\ \A i \in 1..n : ~(<<i, "disable", TRUE>> \in E /\ <<i, "disable", FALSE>> \in E)
         /\ input = InputOf(E \cup {<<i, "id", 0>> : i \in {k \in 1..n : ~Marked(E, k, "virtual")}},
                            n, [i \in 1..n |-> IF Marked(E, i, "y") THEN "y" ELSE "x"])

SpecVirtual == InitVirtual /\ [][Next]_vars

\* the largest number of items in one input of InitInterleave
MaxInterleaved == 4

\* real and virtual items in any interleaving, all named "x" but for at most
\* one named "y"; each may carry the field `a` or the field `b`, and every
\* real item carries its position as `id`
InitInterleave ==
  /\ InitConfig
  /\ \E n \in 0..MaxInterleaved :
       \E V \in SUBSET (1..n) :
         \E f \in [1..n -> {"a", "b", "none"}] :
           \E Y \in {{}} \cup {{i} : i \in 1..n} :
             input = InputOf({<<i, "virtual", 0>> : i \in V}
                               \cup {<<i, "id", 0>> : i \in (1..n) \ V}
                               \cup {<<i, f[i], 0>> : i \in {k \in 1..n : f[k] # "none"}},
                             n, [i \in 1..n |-> IF i \in Y THEN "y" ELSE "x"])

SpecInterleave == InitInterleave /\ [][Next]_vars

\* the largest number of after/before references in one input of InitAbsent
MaxAbsentRefs == 2

\* items with distinct names, up to MaxAbsentRefs after/before references,
\* to each other or to "z", a name no item has, and at most one item that
\* has disable: true
InitAbsent ==
  /\ InitConfig
  /\ \E n \in 0..MaxItems :
       \E E \in UpTo(EdgesWith(n, {"after", "before"}, {"z"}), MaxAbsentRefs) :
         \E D \in {{}} \cup {{<<i, "disable", TRUE>>} : i \in 1..n} :
           input = InputOf(E \cup D, n, AllNames)

SpecAbsent == InitAbsent /\ [][Next]_vars

\* the largest number of elements in one input of InitRaw
MaxRaw == 3

\* arguments of run() that are not arrays
NotArrays == {Undef, Null, Num(3), Str("ab"), Obj([p \in {"name"} |-> Str("a")])}

\* elements of the array handed to run(): falsy values, truthy values that
\* are not plain objects, plain objects without a string name, and items
RawChoices ==
  {Undef, Null, Num(0), Str(""),
   Str("c"), Num(7), Arr(<<>>),
   Obj(NoProps), Obj([p \in {"name"} |-> Num(1)]),
   Obj([p \in {"name"} |-> Str("a")]),
   Obj([p \in {"name", "before"} |-> IF p = "name" THEN Str("b") ELSE Arr(<<Str("a")>>)])}

\* any argument: not an array, or an array of up to MaxRaw elements of any
\* kind; normalize is the default or the one that turns strings into items
InitRaw ==
  /\ InitRun
  /\ schema = Obj(NoProps)
  /\ defaultGroup = 500
  /\ finalize = "item"
  /\ normalize \in {"item", "named"}
  /\ \/ input \in NotArrays
     \/ \E n \in 0..MaxRaw : \E raw \in [1..n -> RawChoices] : input = Arr(raw)

SpecRaw == InitRaw /\ [][Next]_vars

\* the largest number of items in one input of InitFinalize
MaxFinalized == 3

\* an item without the field `out`
NoOut == [t |-> "none"]

\* what an item of InitFinalize may have as its `out`
OutChoices == {NoOut, Undef, Null, Num(0), Str("x")}

WithOut(item, o) ==
  IF o = NoOut THEN item
  ELSE Obj([p \in DOMAIN item.v \cup {"out"} |-> IF p = "out" THEN o ELSE item.v[p]])

\* items with distinct names, each with an `out` of its own choice, the last
\* of them before the first or not; finalize is the default or returns `out`
InitFinalize ==
  /\ InitRun
  /\ schema = Obj(NoProps)
  /\ defaultGroup = 500
  /\ normalize = "item"
  /\ finalize \in {"item", "out"}
  /\ \E n \in 0..MaxFinalized :
       \E o \in [1..n -> OutChoices] :
         \E E \in {{}} \cup {{<<n, "before", "a">>}} :
           input = Arr([i \in 1..n |-> WithOut(ItemOf(E, i, AllNames), o[i])])

SpecFinalize == InitFinalize /\ [][Next]_vars

\* the largest number of items in one input of InitShared
MaxShared == 4

\* the largest number of after/before references in one input of InitShared
MaxSharedRefs == 2

\* items named "a", "b" or "c" in any arrangement, so that names are shared,
\* each carrying its position as `id`, with up to MaxSharedRefs after/before
\* references to "a" and "b"
InitShared ==
  /\ InitConfig
  /\ \E n \in 0..MaxShared :
       \E names \in [1..n -> {"a", "b", "c"}] :
         \E E \in UpTo((1..n) \X {"after", "before"} \X {"a", "b"}, MaxSharedRefs) :
           input = InputOf(E \cup {<<i, "id", 0>> : i \in 1..n}, n, names)

SpecShared == InitShared /\ [][Next]_vars

\* the largest number of items in one input of InitSchema
MaxSchemaItems == 3

\* a record of fields: an object with the fields of `fs` that are defined
Fields(fs) == Obj([p \in {q \in DOMAIN fs : fs[q] # Undef} |-> fs[p]])

\* what the schema may have under "*" and under "a"
WildcardChoices ==
  {Undef,
   Fields([a |-> Num(100)]),
   Fields([a |-> Num(100), after |-> Arr(<<Str("z")>>)])}

NamedChoices ==
  {Undef,
   Fields([a |-> Num(200)]),
   Fields([a |-> Num(200), after |-> Arr(<<Str("y")>>), before |-> Str("b")])}

\* what item i may state of its own
ShapeChoices(i) ==
  {Obj(NoProps),
   Fields([a |-> Num(i)]),
   Fields([a |-> Num(i), after |-> Arr(<<Str("b")>>)])}

\* the object `obj` with the field p set to x
With(obj, p, x) == Obj([q \in DOMAIN obj.v \cup {p} |-> IF q = p THEN x ELSE obj.v[q]])

\* a schema with or without a "*" entry and an entry for "a"; items named
\* "a" but for at most one named "b", real or virtual, each stating a scalar
\* and a list of its own or not; every real item carries its position as `id`
InitSchema ==
  /\ InitRun
  /\ normalize = "item"
  /\ finalize = "item"
  /\ defaultGroup = 500
  /\ \E w \in WildcardChoices : \E a \in NamedChoices :
       schema = Fields(("*" :> w) @@ ("a" :> a))
  /\ \E n \in 0..MaxSchemaItems :
       \E B \in {{}} \cup {{i} : i \in 1..n} :
         \E V \in SUBSET (1..n) :
           \E shape \in [1..n -> UNION {ShapeChoices(i) : i \in 1..n}] :
             /\ \A i \in 1..n : shape[i] \in ShapeChoices(i)
             /\ input = Arr([i \in 1..n |->
                   LET named == With(shape[i], "name", Str(IF i \in B THEN "b" ELSE "a"))
                   IN  IF i \in V THEN With(named, "virtual", Bool(TRUE))
                       ELSE With(named, "id", Num(i))])

SpecSchema == InitSchema /\ [][Next]_vars

\* the largest number of elements in one input of InitCallbacks
MaxCallbackItems == 3

\* the elements handed to run(): a name, null, an object without a name, an
\* item with an `out`, one without, one that asks to stand before "a"
ElementChoices ==
  {Str("a"), Null, Obj(NoProps),
   Obj([p \in {"name", "out"} |-> IF p = "name" THEN Str("a") ELSE Num(1)]),
   Obj([p \in {"name"} |-> Str("c")]),
   Obj([p \in {"name", "before", "out"} |->
          CASE p = "name" -> Str("b")
            [] p = "before" -> Arr(<<Str("a")>>)
            [] p = "out" -> Num(2)])}

\* a sorter with either normalize and either finalize
InitCallbacks ==
  /\ InitRun
  /\ schema = Obj(NoProps)
  /\ defaultGroup = 500
  /\ normalize \in {"item", "named"}
  /\ finalize \in {"item", "out"}
  /\ \E n \in 0..MaxCallbackItems : \E elems \in [1..n -> ElementChoices] : input = Arr(elems)

SpecCallbacks == InitCallbacks /\ [][Next]_vars

\* the largest number of marks in one input of InitDisable
MaxDisableMarks == 4

\* real and virtual items named "a" or "b", with `disable` true, false or
\* absent, listing "a" in `before` or not; every real item carries its
\* position as `id`
InitDisable ==
  /\ InitConfig
  /\ \E n \in 0..MaxItems :
       \E E \in UpTo(((1..n) \X {"virtual", "y"} \X {0})
                       \cup ((1..n) \X {"disable"} \X {TRUE, FALSE})
                       \cup ((1..n) \X {"before"} \X {"a"}), MaxDisableMarks) :
         /\ \A i \in 1..n : ~(<<i, "disable", TRUE>> \in E /\ <<i, "disable", FALSE>> \in E)
         /\ input = InputOf(E \cup {<<i, "id", 0>> : i \in {k \in 1..n : ~Marked(E, k, "virtual")}},
                            n, [i \in 1..n |-> IF Marked(E, i, "y") THEN "b" ELSE "a"])

SpecDisable == InitDisable /\ [][Next]_vars

----------------------------------------------------------------------------
(* run(items) as a function of its argument: the stages composed *)

run(in) ==
  IF ~isArray(in) THEN Throws("Items must be an array")
  ELSE LET n == _normalizeItems(in.v) IN
       IF n.threw # "" THEN n
       ELSE LET s == _sortItems(_excludeDisabled(_mergeVirtuals(_applySchema(n.out)))) IN
            IF s.threw # "" THEN s
            ELSE IF _finalizeThrown(s.out) # "" THEN Throws(_finalizeThrown(s.out))
            ELSE Returns(_finalizeItems(s.out))

----------------------------------------------------------------------------
(* getWebpackRules: the pipeline of a rule expanded into its loaders *)

\* sortPlugins(items, options): run() of a sorter constructed with the options
sortPlugins(its) == run(Arr(its))

\* the outcome of an expansion: the loaders or the error code, and the names
\* marked in `processed`, which all calls of one expansion share
Expanded(outcome, processed) ==
  [threw |-> outcome.threw, out |-> outcome.out, processed |-> processed]

RECURSIVE _pipeline(_, _)
RECURSIVE _loadersReduce(_, _, _, _)

\* the reduce of _loaders over items[idx..]: an item with a string `pipeline`
\* is replaced by the loaders of that pipeline
_loadersReduce(its, idx, arr, processed) ==
  IF idx > Len(its) THEN Expanded(Returns(arr), processed)
  ELSE LET item == its[idx] IN
       IF isPlainObject(item) /\ Get(item, "pipeline").t = "str"
       THEN LET sub == _pipeline(Get(item, "pipeline").v, processed) IN
            IF sub.threw # "" THEN sub
            ELSE _loadersReduce(its, idx + 1, arr \o sub.out, sub.processed)
       ELSE _loadersReduce(its, idx + 1, Append(arr, item), processed)

_loaders(its, processed) ==
  LET reduced == _loadersReduce(its, 1, <<>>, processed) IN
  IF reduced.threw # "" THEN reduced
  ELSE Expanded(sortPlugins(reduced.out), reduced.processed)

_pipeline(name, processed) ==
  IF name \in processed THEN Expanded(Throws("CIRCULAR_PIPELINE"), processed)
  ELSE IF name \notin DOMAIN pipelines \/ ~isArray(pipelines[name]) \/ Len(pipelines[name].v) = 0
  THEN Expanded(Throws("INVALID_PIPELINE"), processed \cup {name})
  ELSE _loaders(pipelines[name].v, processed \cup {name})

\* use: _pipeline(item.pipeline) for the rule, with `processed` empty
ResolveRule ==
  /\ use = Pending
  /\ use' = [threw |-> _pipeline(rule, {}).threw, out |-> _pipeline(rule, {}).out]
  /\ UNCHANGED <<sorterVars, mergeVars, pipelines, rule>>

NextRules == ResolveRule

\* the names of the items of an array, in order
NamesOf(its) == [i \in 1..Len(its) |-> Get(its[i], "name").v]

\* the outcome of run(in) as far as the order goes
OrderOf(in) ==
  LET r == run(in) IN
  IF r.threw # "" THEN [threw |-> TRUE, names |-> <<>>]
  ELSE [threw |-> FALSE, names |-> NamesOf(r.out)]

----------------------------------------------------------------------------
(* What an input asks for *)

ListOf(item, field) ==
  IF isArray(Get(item, field)) THEN Get(item, field).v ELSE <<>>

Has(list, name) == \E k \in 1..Len(list) : list[k] = Str(name)

\* item i of the array asks to be placed later than item j
MustFollow(its, i, j) ==
  \/ Has(ListOf(its[i], "after"), Get(its[j], "name").v)
  \/ Has(ListOf(its[j], "before"), Get(its[i], "name").v)

\* the requests form a cycle: some non-empty set of items in which every
\* item asks to be placed later than an item of the set
HasCycle(its) ==
  \E S \in SUBSET (1..Len(its)) :
    /\ S # {}
    /\ \A i \in S : \E j \in S : MustFollow(its, i, j)

UniqueNames(its) ==
  \A i, j \in 1..Len(its) : Get(its[i], "name") = Get(its[j], "name") => i = j

\* the group an item is meant to have: its own, or the default when it has none
EffectiveGroup(item) ==
  IF "group" \in DOMAIN item.v THEN Get(item, "group").v ELSE defaultGroup

\* the position of the item named `name` in a sequence of names (0: absent)
PosOf(names, name) ==
  IF \E k \in 1..Len(names) : names[k] = name
  THEN CHOOSE k \in 1..Len(names) : names[k] = name
  ELSE 0

----------------------------------------------------------------------------
(* C1 *)

\* C1: for every array input, cycles of after/before references included
\* (an item naming itself, at the first position too), run() returns and
\* raises nothing.
C1_ReturnsWithoutRaising == isArray(input) => pc # "threw"

----------------------------------------------------------------------------
(* C2 *)

\* no item of the array has group, after or before, is virtual or disabled
Unconstrained(its) ==
  \A i \in 1..Len(its) :
    DOMAIN its[i].v \cap {"group", "after", "before", "virtual", "disable"} = {}

\* the item as _applySchema copies it when the schema is empty
WithLists(item) ==
  Obj([p \in DOMAIN item.v \cup {"after", "before"} |->
         IF p \in DOMAIN item.v THEN item.v[p] ELSE Arr(<<>>)])

\* C2: when no item has group, before or after (none virtual or disabled,
\* identity normalize/finalize, empty schema), run() returns the items in
\* exactly their input order.
C2_Stability ==
  (pc = "done" /\ Unconstrained(input.v) /\ schema = Obj(NoProps)) =>
    /\ Len(result) = Len(input.v)
    /\ \A i \in 1..Len(result) : result[i] = WithLists(input.v[i])

\* three items, the first and the last of the same name, came back
C2_Witness ==
  /\ pc = "done"
  /\ Unconstrained(input.v)
  /\ Len(input.v) = 3
  /\ Get(input.v[1], "name") = Get(input.v[3], "name")
  /\ Get(input.v[1], "name") # Get(input.v[2], "name")
  /\ Len(result) = 3

----------------------------------------------------------------------------
(* C3 *)

\* C3: in every output the groups of the items, the default standing in for
\* the items that have no group, never decrease from first to last.
C3_GroupsNonDecreasing ==
  pc = "done" =>
    \A i, j \in 1..Len(result) :
      i < j => EffectiveGroup(result[i]) <= EffectiveGroup(result[j])

----------------------------------------------------------------------------
(* C4 *)

\* every request between two items of one effective group is met by `names`
RequestsMet(its, names) ==
  \A i, j \in 1..Len(its) :
    (/\ MustFollow(its, i, j)
     /\ EffectiveGroup(its[i]) = EffectiveGroup(its[j]))
    => PosOf(names, Get(its[i], "name").v) > PosOf(names, Get(its[j], "name").v)

\* C4: with distinct names and no cycle, every after/before request between
\* two items of the same effective group is met by the output.
C4_ConstraintsMet ==
  (pc = "done" /\ UniqueNames(input.v) /\ ~HasCycle(input.v)) =>
    RequestsMet(input.v, NamesOf(result))

\* a chain of two requests within one group that the input order did not
\* meet: the first item follows the second, which follows the third
C4_Witness ==
  /\ pc = "done"
  /\ UniqueNames(input.v)
  /\ ~HasCycle(input.v)
  /\ Len(input.v) = 3
  /\ MustFollow(input.v, 1, 2)
  /\ MustFollow(input.v, 2, 3)
  /\ \A i \in 1..3 : EffectiveGroup(input.v[i]) = EffectiveGroup(input.v[1])
  /\ NamesOf(result) = <<"c", "b", "a">>

----------------------------------------------------------------------------
(* C5 *)

RemoveAt(list, k) == SubSeq(list, 1, k - 1) \o SubSeq(list, k + 1, Len(list))

\* the input in which item i no longer names item j as the k-th element of
\* its `before` and item j names item i at the end of its `after` instead
BeforeAsAfter(its, i, k, j) ==
  [x \in 1..Len(its) |->
     IF x = i /\ Len(ListOf(its[i], "before")) = 1
       THEN omit(its[i], "before")
     ELSE IF x = i
       THEN Obj([its[i].v EXCEPT !["before"] = Arr(RemoveAt(@.v, k))])
     ELSE IF x = j
       THEN Obj([p \in DOMAIN its[j].v \cup {"after"} |->
                  IF p = "after"
                  THEN Arr(Append(ListOf(its[j], "after"), Get(its[i], "name")))
                  ELSE its[j].v[p]])
     ELSE its[x]]

\* item i names item j, another item, as the k-th element of its `before`
NamesBefore(its, i, k, j) ==
  /\ i # j
  /\ k \in 1..Len(ListOf(its[i], "before"))
  /\ ListOf(its[i], "before")[k] = Get(its[j], "name")

\* C5 as stated: with unique names, whenever both runs return, A declaring
\* before:[B] gives the same output order as B declaring after:[A] instead.
C5_BeforeIsAfter ==
  (pc = "done" /\ UniqueNames(input.v)) =>
    \A i, j \in 1..Len(input.v) :
      \A k \in 1..Len(ListOf(input.v[i], "before")) :
        (/\ NamesBefore(input.v, i, k, j)
         /\ ~OrderOf(Arr(BeforeAsAfter(input.v, i, k, j))).threw)
        => OrderOf(Arr(BeforeAsAfter(input.v, i, k, j))).names = NamesOf(result)

\* C5 amended: with unique names and no cycle among the after/before
\* references, A declaring before:[B] gives the same outcome and output
\* order as B declaring after:[A] instead.
C5_BeforeIsAfterAcyclic ==
  ((pc = "done" \/ pc = "threw") /\ UniqueNames(input.v) /\ ~HasCycle(input.v)) =>
    \A i, j \in 1..Len(input.v) :
      \A k \in 1..Len(ListOf(input.v[i], "before")) :
        NamesBefore(input.v, i, k, j)
        => OrderOf(Arr(BeforeAsAfter(input.v, i, k, j)))
             = [threw |-> pc = "threw", names |-> NamesOf(result)]

\* the last of three items declared itself before the first and was moved
\* ahead of it, past an item that lists something in its own `after`
C5_Witness ==
  /\ pc = "done"
  /\ UniqueNames(input.v)
  /\ ~HasCycle(input.v)
  /\ Len(input.v) = 3
  /\ NamesBefore(input.v, 3, 1, 1)
  /\ ListOf(input.v[2], "after") # <<>>
  /\ PosOf(NamesOf(result), "c") < PosOf(NamesOf(result), "a")

----------------------------------------------------------------------------
(* Virtual items: C6 - C10 *)

IsVirtual(item) == Truthy(Get(item, "virtual"))

SameName(x, y) == Get(x, "name") = Get(y, "name")

\* the items of a sequence that carry the name
OfName(seq, name) == SelectSeq(seq, LAMBDA o : Get(o, "name") = name)

\* the real item r of the input, as a position of `seq`, by its `id` (0: absent)
WhereId(seq, r) ==
  IF \E k \in 1..Len(seq) : Get(seq[k], "id") = Num(r)
  THEN CHOOSE k \in 1..Len(seq) : Get(seq[k], "id") = Num(r)
  ELSE 0

\* the virtual items of the array that carry the name of item r
VirtualsFor(its, r) ==
  {v \in 1..Len(its) : IsVirtual(its[v]) /\ SameName(its[v], its[r])}

(* C6 *)

\* items r and v are the one real and the one virtual item of their name, they
\* share no field but the name, and neither is disabled
RealVirtualPair(its, r, v) ==
  /\ ~IsVirtual(its[r])
  /\ IsVirtual(its[v])
  /\ \A x \in 1..Len(its) : SameName(its[x], its[r]) <=> x \in {r, v}
  /\ DOMAIN its[r].v \cap DOMAIN its[v].v = {"name"}
  /\ ~Truthy(Get(its[r], "disable"))
  /\ ~Truthy(Get(its[v], "disable"))

\* the item that carries the fields of both
FieldsOfBoth(real, virt) ==
  Obj([p \in (DOMAIN real.v \cup DOMAIN virt.v \cup {"after", "before"}) \ {"virtual"} |->
         IF p \in DOMAIN real.v THEN real.v[p]
         ELSE IF p \in DOMAIN virt.v THEN virt.v[p]
         ELSE Arr(<<>>)])

Swap(its, r, v) ==
  [x \in 1..Len(its) |-> IF x = r THEN its[v] ELSE IF x = v THEN its[r] ELSE its[x]]

C7_VirtualsNeverAppear ==
  /\ pc = "finalize" => \A k \in 1..Len(items) : ~IsVirtual(items[k])
  /\ pc = "done" =>
       /\ \A k \in 1..Len(result) : ~IsVirtual(result[k])
       /\ Len(result) <= Cardinality({r \in 1..Len(input.v) : ~IsVirtual(input.v[r])})
       /\ \A k \in 1..Len(result) :
            \E r \in 1..Len(input.v) :
              /\ ~IsVirtual(input.v[r])
              /\ SameName(input.v[r], result[k])
              /\ WhereId(result, r) = k

\* the input had a virtual item of a name no real item carries, next to a
\* real item that came out
C7_Witness ==
  /\ pc = "done"
  /\ \E v \in 1..Len(input.v) :
       /\ IsVirtual(input.v[v])
       /\ \A x \in 1..Len(input.v) : SameName(input.v[x], input.v[v]) => IsVirtual(input.v[x])
  /\ Len(result) >= 1

(* C8 *)

\* the values given to field p of real item r: its own and those of the
\* virtual items of its name
Contributed(its, r, p) ==
  {its[x].v[p] : x \in {y \in VirtualsFor(its, r) \cup {r} : p \in DOMAIN its[y].v}}

\* C8: every surviving real item carries every field of every virtual item
\* of its name, whether that came before or after it, with a value one of
\* them gave.
C8_AllVirtualsMerged ==
  pc = "done" =>
    \A r \in 1..Len(input.v) :
      (~IsVirtual(input.v[r]) /\ WhereId(result, r) # 0) =>
        \A v \in VirtualsFor(input.v, r) :
          \A p \in DOMAIN input.v[v].v \ {"virtual"} :
            /\ p \in DOMAIN result[WhereId(result, r)].v
            /\ result[WhereId(result, r)].v[p] \in Contributed(input.v, r, p)

\* two real items interleaved with two virtual items of their name both
\* came out with the field of the virtual item before them and the field of
\* the virtual item after them
C8_Witness ==
  /\ pc = "done"
  /\ Len(input.v) = 4
  /\ VirtualsFor(input.v, 2) = {1, 3}
  /\ VirtualsFor(input.v, 4) = {1, 3}
  /\ "a" \in DOMAIN input.v[1].v
  /\ "b" \in DOMAIN input.v[3].v
  /\ DOMAIN input.v[2].v = {"name", "id"}
  /\ DOMAIN input.v[4].v = {"name", "id"}
  /\ Len(result) = 2
  /\ \A k \in 1..2 : Get(result[k], "a") = Num(1) /\ Get(result[k], "b") = Num(13)

(* C9 *)

\* C9: when a real item and a virtual item of its name give one scalar field
\* different values, the output item has the real item's value, whether the
\* virtual item precedes or follows it.
C9_RealValueWins ==
  pc = "done" =>
    \A r \in 1..Len(input.v) :
      (~IsVirtual(input.v[r]) /\ WhereId(result, r) # 0) =>
        \A v \in VirtualsFor(input.v, r) :
          \A p \in (DOMAIN input.v[v].v \cap DOMAIN input.v[r].v) \ {"name", "after", "before"} :
            input.v[v].v[p] # input.v[r].v[p]
            => result[WhereId(result, r)].v[p] = input.v[r].v[p]

(* C10 *)

\* C10: an input item that has disable: true never appears in the output,
\* also when the input has virtual items of its name.
C10_DisabledNeverAppears ==
  pc = "done" =>
    \A r \in 1..Len(input.v) :
      (~IsVirtual(input.v[r]) /\ Get(input.v[r], "disable") = Bool(TRUE))
      => WhereId(result, r) = 0

----------------------------------------------------------------------------
(* Items and names that take no part in the sort: C11, C12 *)

HasVirtual(its) == \E i \in 1..Len(its) : IsVirtual(its[i])

\* the outcome of the run so far, in the shape of the outcome of run(in)
Outcome == [threw |-> error, out |-> result]

(* C11 *)

\* C11: for an input without virtual items, the outcome of run() with an
\* item that has disable: true is the outcome for the same input with that
\* item deleted, whatever the after/before references to and from it.
C11_DisabledHasNoInfluence ==
  ((pc = "done" \/ pc = "threw") /\ ~HasVirtual(input.v)) =>
    \A i \in 1..Len(input.v) :
      Get(input.v[i], "disable") = Bool(TRUE)
      => run(Arr(RemoveAt(input.v, i))) = Outcome

\* the second of three items is disabled, the first is to follow it and it
\* is to precede the third; the other two come out in input order
C11_Witness ==
  /\ pc = "done"
  /\ Len(input.v) = 3
  /\ Get(input.v[2], "disable") = Bool(TRUE)
  /\ Has(ListOf(input.v[1], "after"), "b")
  /\ Has(ListOf(input.v[2], "before"), "c")
  /\ NamesOf(result) = <<"a", "c">>

(* C12 *)

\* the items that reach the sort: normalized, schema applied, virtual items
\* merged, disabled items excluded
SurvivorsOf(in) ==
  LET n == _normalizeItems(in.v) IN
  IF n.threw # "" THEN <<>>
  ELSE _excludeDisabled(_mergeVirtuals(_applySchema(n.out)))

\* the k-th name of `field` of item i is the name of no item that reaches
\* the sort
Dangling(in, i, field, k) ==
  LET survivors == SurvivorsOf(in) IN
  \A j \in 1..Len(survivors) :
    Get(survivors[j], "name") # ListOf(in.v[i], field)[k]

\* the input without the k-th name of `field` of item i
DropRef(its, i, field, k) ==
  [x \in 1..Len(its) |->
     IF x = i THEN Obj([its[i].v EXCEPT ![field] = Arr(RemoveAt(@.v, k))])
     ELSE its[x]]

\* C12: a name in an after or before list that is the name of no surviving
\* item is ignored: the run ends as, and gives the output order of, the run
\* on the same input with that name removed, so the name raises no error.
C12_DanglingIgnored ==
  (pc = "done" \/ pc = "threw") =>
    \A i \in 1..Len(input.v) :
      \A field \in {"after", "before"} :
        \A k \in 1..Len(ListOf(input.v[i], field)) :
          Dangling(input, i, field, k)
          => OrderOf(Arr(DropRef(input.v, i, field, k)))
               = [threw |-> pc = "threw", names |-> NamesOf(result)]

\* the first of three items is to follow "z", a name no item has, and the
\* third; it comes out last, and the run returned
C12_Witness ==
  /\ pc = "done"
  /\ Len(input.v) = 3
  /\ ListOf(input.v[1], "after") = <<Str("c"), Str("z")>>
  /\ Dangling(input, 1, "after", 2)
  /\ NamesOf(result) = <<"b", "c", "a">>

----------------------------------------------------------------------------
(* C13 *)

\* C13: the default group stands in only for items that have no group; an
\* item whose group is 0 is ordered by 0 and so precedes every item whose
\* group, stated or default, is positive.
C13_GroupZeroFirst ==
  pc = "done" =>
    \A i, j \in 1..Len(result) :
      (Get(result[i], "group") = Num(0) /\ EffectiveGroup(result[j]) > 0) => i < j

----------------------------------------------------------------------------
(* What run() is handed: C14 - C16 *)

Called(fn) == \E k \in 1..Len(calls) : calls[k][1] = fn

(* C14 *)

\* C14: run() with an argument that is not an array raises at once: it
\* never gets past its first test, neither normalize nor finalize is
\* invoked, and no result is returned.
C14_NotAnArrayRaises ==
  ~isArray(input) =>
    /\ pc \in {"run", "threw"}
    /\ pc = "threw" => error = "Items must be an array"
    /\ calls = <<>>
    /\ result = <<>>

\* run() was handed an object that is an item, not an array, and raised
C14_Witness ==
  /\ pc = "threw"
  /\ isPlainObject(input)
  /\ error = "Items must be an array"

(* C15 *)

\* a value normalize may return that is truthy and is not a plain object
\* with a string name
Invalid(x) == Truthy(x) /\ (~isPlainObject(x) \/ Get(x, "name").t # "str")

\* C15: if normalize returns, for any element of the array, a truthy value
\* that is not a plain object or a plain object without a string name, run()
\* raises: it never gets past the normalizing, no result is returned and
\* finalize is invoked for no item.
C15_InvalidItemRaises ==
  (isArray(input) /\ \E i \in 1..Len(input.v) : Invalid(_normalize(input.v[i]))) =>
    /\ pc \in {"run", "normalize", "threw"}
    /\ pc = "threw" => error \in {"'normalize' should return an object", "Name is required"}
    /\ result = <<>>
    /\ ~Called("finalize")

\* an item, then an object whose name is not a string: run() raised after
\* having normalized both, and finalized none
C15_Witness ==
  /\ pc = "threw"
  /\ error = "Name is required"
  /\ isArray(input)
  /\ Len(input.v) >= 2
  /\ _normalize(input.v[1]) = Obj([p \in {"name"} |-> Str("a")])
  /\ Invalid(_normalize(input.v[2]))
  /\ Len(calls) = 2

(* C16 *)

\* C16: an element for which normalize returns a falsy value is dropped
\* before anything else is done with it: the run ends as, and returns what,
\* the run on the same array without that element does.
C16_FalsyDropped ==
  ((pc = "done" \/ pc = "threw") /\ isArray(input)) =>
    \A i \in 1..Len(input.v) :
      ~Truthy(_normalize(input.v[i]))
      => run(Arr(RemoveAt(input.v, i))) = Outcome

\* null stands between two items of which the later is to precede the
\* earlier; run() returned the two, reordered
C16_Witness ==
  /\ pc = "done"
  /\ isArray(input)
  /\ Len(input.v) = 3
  /\ input.v[2] = Null
  /\ NamesOf(result) = <<"b", "a">>

----------------------------------------------------------------------------
(* C17 *)

\* the sorted items whose finalize result is not undefined
Kept == {i \in 1..Len(items) : _finalize(items[i]) # Undef}

\* C17: the result of run() is the finalize results of the sorted items, in
\* sorted order, without exactly those that are undefined: every other
\* result, null and the other falsy values included, is there, and the
\* results left keep their order.
C17_UndefinedResultsDropped ==
  pc = "done" =>
    /\ Len(result) = Cardinality(Kept)
    /\ \A i \in Kept :
         result[Cardinality({j \in Kept : j <= i})] = _finalize(items[i])

\* three items sorted as b, c, a are finalized to 0, undefined and null:
\* the result is 0, null
C17_Witness ==
  /\ pc = "done"
  /\ finalize = "out"
  /\ NamesOf(items) = <<"b", "c", "a">>
  /\ Get(items[2], "out") = Undef
  /\ result = <<Num(0), Null>>

----------------------------------------------------------------------------
(* C18 *)

\* the largest number of after/before references in one input of InitAssign
MaxAssignRefs == 2

\* Item k as the caller holds it: its `after` and `before` arrays are arrays
\* of the caller, and with `assign` its `after` is merge.assign(array), to
\* replace what the schema lists.
CallerItem(item, k, assign) ==
  Obj([p \in DOMAIN item.v \cup (IF assign THEN {"after"} ELSE {}) |->
         IF p = "after" /\ assign
           THEN Custom(Shared(ListOf(item, "after"), <<k, "after">>))
         ELSE IF p \in {"after", "before"}
           THEN Shared(item.v[p].v, <<k, p>>)
         ELSE item.v[p]])

\* items with distinct names and up to MaxAssignRefs after/before references
\* to one another, any of them giving its `after` through merge.assign
InitAssign ==
  /\ InitConfig
  /\ \E n \in 0..MaxItems :
       \E E \in UpTo({e \in Edges(n, {"after", "before"}) : e[3] # AllNames[e[1]]},
                     MaxAssignRefs) :
         \E A \in SUBSET (1..n) :
           input = Arr([k \in 1..n |-> CallerItem(ItemOf(E, k, AllNames), k, k \in A)])

SpecAssign == InitAssign /\ [][Next]_vars

\* C18: run() does not mutate what it is given and keeps no state: no step
\* of a run changes the input array, the input items, their after/before
\* lists included, or the schema, and run() called again on the input
\* returns what the call returned.
C18_InputsUntouched ==
  /\ [][input' = input /\ schema' = schema]_vars
  /\ [](pc = "done" => run(input) = Outcome)

----------------------------------------------------------------------------
(* C19 *)

\* item x is the only item with a request: it lists the name of item t, an
\* item of its group, as the one name of its `after`
OnlyRequest(its, x, t) ==
  /\ x # t
  /\ ListOf(its[x], "after") = <<Get(its[t], "name")>>
  /\ EffectiveGroup(its[x]) = EffectiveGroup(its[t])
  /\ \A i \in 1..Len(its) :
       /\ ListOf(its[i], "before") = <<>>
       /\ i # x => ListOf(its[i], "after") = <<>>

\* `names` with the x-th name moved to directly follow the t-th
MovedAfter(names, x, t) ==
  LET rest == RemoveAt(names, x)
      at == PosOf(rest, names[t])
  IN  SubSeq(rest, 1, at) \o <<names[x]>> \o SubSeq(rest, at + 1, Len(rest))

\* C19: when x is the only item with a request, after:[t], and t is a
\* present item of the same group (names unique), the output is the input
\* order with x moved to directly follow t, wherever t stands in the input,
\* first included: [a, b, c after a] gives [a, c, b].
C19_MovedDirectlyAfter ==
  (pc = "done" /\ UniqueNames(input.v)) =>
    \A x, t \in 1..Len(input.v) :
      (/\ OnlyRequest(input.v, x, t)
       /\ \A i \in 1..Len(input.v) : EffectiveGroup(input.v[i]) = EffectiveGroup(input.v[t]))
      => NamesOf(result) = MovedAfter(NamesOf(input.v), x, t)

----------------------------------------------------------------------------
(* C20 *)

\* the requests form a cycle of names: some non-empty set of names each of
\* which has an item that asks to be placed later than an item named in the
\* set
HasNameCycle(its) ==
  \E S \in SUBSET {Get(its[i], "name") : i \in 1..Len(its)} :
    /\ S # {}
    /\ \A n \in S : \E i, j \in 1..Len(its) :
         /\ Get(its[i], "name") = n
         /\ Get(its[j], "name") \in S
         /\ MustFollow(its, i, j)

\* C20: when the after/before references form no cycle, not even one of
\* names, an item that lists the name t in its `after` stands in the output
\* later than every item named t of its effective group, whichever of them
\* has the highest index.
C20_AfterEveryNamesake ==
  (pc = "done" /\ ~HasNameCycle(input.v)) =>
    \A x, j \in 1..Len(input.v) :
      (/\ x # j
       /\ Has(ListOf(input.v[x], "after"), Get(input.v[j], "name").v)
       /\ EffectiveGroup(input.v[x]) = EffectiveGroup(input.v[j]))
      => WhereId(result, j) < WhereId(result, x)

----------------------------------------------------------------------------
(* C21 *)

\* C21: when the after/before references form no cycle, not even one of
\* names, an item that lists the name t in its `before` stands in the output
\* earlier than every item named t of its effective group, whichever of them
\* has the lowest index.
C21_BeforeEveryNamesake ==
  (pc = "done" /\ ~HasNameCycle(input.v)) =>
    \A x, j \in 1..Len(input.v) :
      (/\ x # j
       /\ Has(ListOf(input.v[x], "before"), Get(input.v[j], "name").v)
       /\ EffectiveGroup(input.v[x]) = EffectiveGroup(input.v[j]))
      => WhereId(result, x) < WhereId(result, j)

(***************************************************************************)
(* C22: the layers of schema application                                   *)
(***************************************************************************)

\* what a layer contributes to a list field: nothing when it does not state
\* the field, the elements of its list, or its single value
AsList(x) == IF x = Undef THEN <<>> ELSE IF isArray(x) THEN x.v ELSE <<x>>

\* the layers a real item is built from, lowest priority first
LayersOf(item) == <<Get(schema, "*"), Get(schema, Get(item, "name").v), item>>

FieldOf(layer, field) == IF isPlainObject(layer) THEN Get(layer, field) ELSE Undef

\* the value of a scalar field: that of the highest layer stating it
Layered(item, field) ==
  LET layers == LayersOf(item)
      stated == {k \in 1..3 : FieldOf(layers[k], field) # Undef}
  IN  IF stated = {} THEN Undef
      ELSE FieldOf(layers[CHOOSE k \in stated : \A l \in stated : l <= k], field)

\* the value of a list field: the lists of the layers, lowest layer first
Concatenated(item, field) ==
  LET layers == LayersOf(item)
  IN  AsList(FieldOf(layers[1], field)) \o AsList(FieldOf(layers[2], field))
        \o AsList(FieldOf(layers[3], field))

\* C22: after schema application a real item has, for a scalar field, the
\* value of the item if it states one, else that of the entry of its name,
\* else that of the "*" entry; its `after` and `before` are lists, the
\* concatenation of the lists of the "*" entry, of the entry of its name and
\* of the item, in this order
C22_SchemaLayers ==
  pc = "virtuals" =>
    \A i \in 1..Len(items) :
      ~IsVirtual(input.v[i]) =>
        /\ Get(items[i], "a") = Layered(input.v[i], "a")
        /\ Get(items[i], "after") = Arr(Concatenated(input.v[i], "after"))
        /\ Get(items[i], "before") = Arr(Concatenated(input.v[i], "before"))

\* a real item named "a" stating a scalar and a list, under a schema whose
\* two entries state both too
C22_Witness ==
  /\ pc = "virtuals"
  /\ Len(items) = 2
  /\ ~IsVirtual(input.v[2])
  /\ Get(input.v[2], "a") = Num(2)
  /\ FieldOf(Get(schema, "*"), "a") = Num(100)
  /\ FieldOf(Get(schema, "a"), "a") = Num(200)
  /\ Get(items[2], "a") = Num(2)
  /\ Get(items[2], "after") = Arr(<<Str("z"), Str("y"), Str("b")>>)
  /\ Get(items[2], "before") = Arr(<<Str("b")>>)

(***************************************************************************)
(* C23: the schema reaches real items only, once each                      *)
(***************************************************************************)

\* how many elements of the list field of the item are the name
TimesIn(item, field, name) ==
  Cardinality({k \in 1..Len(ListOf(item, field)) : ListOf(item, field)[k] = Str(name)})

\* how many times the schema entry lists the name in the field
Supplied(entry, field, name) ==
  Cardinality({k \in 1..Len(AsList(FieldOf(entry, field))) :
                 AsList(FieldOf(entry, field))[k] = Str(name)})

\* C23: after schema application a virtual item has the fields it stated and
\* nothing of the schema; an item of the result lists the name "z" of the "*"
\* entry, and the names "y" and "b" of the entry of its name, once if the
\* schema supplies them and never otherwise, however many virtual items of
\* its name were merged into it; a name that only virtual items carry is the
\* name of no item of the result
C23_SchemaOnRealItemsOnce ==
  /\ pc = "virtuals" =>
       \A i \in 1..Len(items) :
         IsVirtual(input.v[i]) =>
           /\ Get(items[i], "a") = Get(input.v[i], "a")
           /\ Get(items[i], "after") = Arr(AsList(Get(input.v[i], "after")))
           /\ Get(items[i], "before") = Arr(<<>>)
  /\ pc = "done" =>
       /\ \A k \in 1..Len(result) :
            LET named == Get(schema, Get(result[k], "name").v)
            IN  /\ TimesIn(result[k], "after", "z") = Supplied(Get(schema, "*"), "after", "z")
                /\ TimesIn(result[k], "after", "y") = Supplied(named, "after", "y")
                /\ TimesIn(result[k], "before", "b") = Supplied(named, "before", "b")
       /\ \A i \in 1..Len(input.v) :
            (\A j \in 1..Len(input.v) : SameName(input.v[i], input.v[j]) => IsVirtual(input.v[j]))
            => \A k \in 1..Len(result) : ~SameName(result[k], input.v[i])

\* a real item named "a" between two virtual items of its name, under a schema
\* whose two entries supply lists
C23_Witness ==
  /\ pc = "done"
  /\ Len(input.v) = 3
  /\ IsVirtual(input.v[1]) /\ ~IsVirtual(input.v[2]) /\ IsVirtual(input.v[3])
  /\ Len(result) = 1
  /\ Get(result[1], "after") = Arr(<<Str("b"), Str("z"), Str("y"), Str("b")>>)
  /\ Get(result[1], "before") = Arr(<<Str("b")>>)

(***************************************************************************)
(* C24: merge(des, ...src)                                                 *)
(***************************************************************************)

\* no sorter is running
NoRun ==
  /\ schema = Obj(NoProps) /\ defaultGroup = 500
  /\ normalize = "item" /\ finalize = "item"
  /\ input = Arr(<<>>) /\ items = <<>> /\ result = <<>>
  /\ error = "" /\ calls = <<>> /\ earlier = <<>> /\ pc = "done"

\* the largest number of objects the caller of merge holds
MaxCells == 3

\* the largest number of sources of a call of merge
MaxSources == 2

\* the objects handed to merge: no field, a number, a list, an object, an
\* object holding a list, an own field that is undefined beside a second field
ObjectChoices ==
  {Obj(NoProps),
   Obj([f \in {"p"} |-> Num(1)]),
   Obj([f \in {"p"} |-> Arr(<<Num(1)>>)]),
   Obj([f \in {"p"} |-> Obj([g \in {"x"} |-> Num(1)])]),
   Obj([f \in {"p"} |-> Obj([g \in {"x"} |-> Arr(<<Num(2)>>)])]),
   Obj([f \in {"p", "q"} |-> IF f = "p" THEN Undef ELSE Num(7)])}

\* the arguments of a call: references to the caller's objects, undefined, null
ArgChoices(h) == {Ref(i) : i \in 1..Len(h)} \cup {Undef, Null}

\* merge(des, ...srcs) on the caller's objects: des is changed in place and
\* returned
CallMerge(des, srcs) ==
  /\ trace = <<>>
  /\ \A k \in 1..Len(srcs) : srcs[k] # Ref(des)
  /\ heap' = [heap EXCEPT ![des].val = merge(@, [k \in 1..Len(srcs) |-> Deref(heap, srcs[k])])]
  /\ trace' = Append(trace, [fn |-> "merge", args |-> <<Ref(des)>> \o srcs,
                             before |-> heap, after |-> heap', ret |-> Ref(des)])
  /\ UNCHANGED <<sorterVars, rulesVars>>

\* the objects are drawn from one set, so the first stands for any destination
NextMerge ==
  \E n \in 0..MaxSources : \E srcs \in [1..n -> ArgChoices(heap)] :
    CallMerge(1, srcs)

\* a caller holding up to MaxCells objects; no sorter is running
InitMerge ==
  /\ NoRun
  /\ NoRules
  /\ trace = <<>>
  /\ \E n \in 1..MaxCells : \E vals \in [1..n -> ObjectChoices] :
       heap = [i \in 1..n |-> Cell(vals[i], FALSE)]

SpecMerge == InitMerge /\ [][NextMerge]_vars

RECURSIVE MergedValue(_, _, _)

\* the value of a field holding d after a source field holding s was merged
\* into it; a source list meeting a value that is not a list overwrites it,
\* or is appended to a list of that value when `prepends`
MergedValue(d, s, prepends) ==
  IF s = Undef THEN d
  ELSE IF isArray(d) THEN Arr(d.v \o AsList(s))
  ELSE IF prepends /\ isArray(s) /\ d # Undef THEN Arr(<<d>> \o s.v)
  ELSE IF isPlainObject(s)
  THEN LET into == IF isPlainObject(d) THEN d ELSE Obj(NoProps)
           set == {f \in DOMAIN s.v : MergedValue(Get(into, f), s.v[f], prepends) # Undef}
       IN  Obj([f \in DOMAIN into.v \cup set |->
                  MergedValue(Get(into, f), Get(s, f), prepends)])
  ELSE s

RECURSIVE MergedAll(_, _, _)

\* the sources merged from left to right, the falsy ones skipped
MergedAll(d, srcs, prepends) ==
  IF srcs = <<>> THEN d
  ELSE MergedAll(IF Truthy(Head(srcs)) THEN MergedValue(d, Head(srcs), prepends) ELSE d,
                 Tail(srcs), prepends)

\* the destination of the call is afterwards what the rules give
MergedAsStated(c, prepends) ==
  c.after[c.args[1].v].val =
    MergedAll(c.before[c.args[1].v].val,
              [k \in 1..Len(c.args) - 1 |-> Deref(c.before, c.args[k + 1])], prepends)

\* C24 as stated: merge(des, ...src) merges field by field, from left to
\* right: a destination list has the source value appended, two plain objects
\* are merged recursively, any other source value overwrites the destination;
\* an undefined source field and a falsy source change nothing
C24_MergeFieldByField ==
  \A k \in 1..Len(trace) : trace[k].fn = "merge" => MergedAsStated(trace[k], FALSE)

\* C24, amended: as above, but a source list meeting a destination value other
\* than a list and undefined gives the list of that value followed by the
\* elements of the source list
C24_MergeFieldByFieldPrepending ==
  \A k \in 1..Len(trace) : trace[k].fn = "merge" => MergedAsStated(trace[k], TRUE)

\* merge(a, b, c) with a.p a number, b.p a list and c.p an object
C24_Witness ==
  /\ Len(trace) = 1
  /\ trace[1].fn = "merge"
  /\ trace[1].args = <<Ref(1), Ref(2), Ref(3)>>
  /\ trace[1].before[1].val = Obj([f \in {"p"} |-> Num(1)])
  /\ trace[1].before[2].val = Obj([f \in {"p"} |-> Arr(<<Num(1)>>)])
  /\ heap[1].val = Obj([f \in {"p"} |-> Arr(<<Num(1), Num(1), Obj([g \in {"x"} |-> Num(1)])>>)])

(***************************************************************************)
(* C25: merge.intact(...args)                                              *)
(***************************************************************************)

\* the largest number of objects the caller of merge.intact creates itself
MaxHeld == 2

\* the largest number of calls of merge.intact, and of arguments of a call
MaxIntactCalls == 2
MaxIntactArgs == 2

\* the objects the caller creates: a number, a list or an object in p
HeldChoices ==
  {Obj([f \in {"p"} |-> Num(1)]),
   Obj([f \in {"p"} |-> Arr(<<Num(1)>>)]),
   Obj([f \in {"p"} |-> Obj([g \in {"x"} |-> Num(1)])])}

\* merge.intact(...args) on objects the caller holds, those returned by
\* earlier calls included; the caller keeps the object returned
CallIntact(args) ==
  /\ Len(trace) < MaxIntactCalls
  /\ heap' = intact(heap, args).heap
  /\ trace' = Append(trace, [fn |-> "intact", args |-> args, before |-> heap,
                             after |-> heap', ret |-> intact(heap, args).ret])
  /\ UNCHANGED <<sorterVars, rulesVars>>

NextIntact ==
  \E n \in 0..MaxIntactArgs : \E args \in [1..n -> ArgChoices(heap)] : CallIntact(args)

\* a caller holding up to MaxHeld objects of its own; no sorter is running
InitIntact ==
  /\ NoRun
  /\ NoRules
  /\ trace = <<>>
  /\ \E n \in 1..MaxHeld : \E vals \in [1..n -> HeldChoices] :
       heap = [i \in 1..n |-> Cell(vals[i], FALSE)]

SpecIntact == InitIntact /\ [][NextIntact]_vars

\* the objects passed to the call are afterwards what they were before it
ArgumentsIntact(c) ==
  \A k \in 1..Len(c.args) :
    c.args[k].t = "ref" => c.after[c.args[k].v].val = c.before[c.args[k].v].val

\* C25: no call of merge.intact changes an object passed to it, whether the
\* caller created the object or got it from an earlier call of merge.intact
C25_ArgumentsIntact ==
  \A k \in 1..Len(trace) : trace[k].fn = "intact" => ArgumentsIntact(trace[k])

(***************************************************************************)
(* C26: the result is a permutation of the enabled real items              *)
(***************************************************************************)

\* the items as _mergeVirtuals leaves them: one for each real item
MergedOf(in) == _mergeVirtuals(_applySchema(_normalizeItems(in.v).out))

\* the real items of the input whose `disable` is falsy once the virtual
\* items are merged, by their `id`
EnabledIds(in) ==
  LET merged == MergedOf(in)
  IN  {Get(merged[k], "id").v : k \in {j \in 1..Len(merged) : ~Truthy(Get(merged[j], "disable"))}}

\* C26: under the identity finalize the result has exactly one item for each
\* real item of the input whose `disable` is falsy after the virtual items
\* were merged, namely that item as merged (but for the names the sort
\* pushed onto its `after`), and no other item
C26_PermutationOfEnabled ==
  pc = "done" =>
    LET merged == MergedOf(input)
        ids == EnabledIds(input)
    IN  /\ Len(result) = Cardinality(ids)
        /\ \A r \in ids :
             /\ Cardinality({k \in 1..Len(result) : Get(result[k], "id") = Num(r)}) = 1
             /\ \A k \in 1..Len(result) :
                  Get(result[k], "id") = Num(r) =>
                    omit(result[k], "after") = omit(merged[WhereId(merged, r)], "after")

\* two real items named "a", the first disabled, and one named "b" that asks
\* to stand before them: the two left are returned in another order than given
C26_Witness ==
  /\ pc = "done"
  /\ Len(input.v) = 3
  /\ Truthy(Get(input.v[1], "disable"))
  /\ EnabledIds(input) = {2, 3}
  /\ Len(result) = 2
  /\ Get(result[1], "id") = Num(3)
  /\ Get(result[2], "id") = Num(2)

(***************************************************************************)
(* C28: a virtual item that disables                                       *)
(***************************************************************************)

\* item v of the input is virtual and has disable: true, item r is a real
\* item of its name that has no `disable` of its own
DisabledBy(in, v, r) ==
  /\ IsVirtual(in.v[v])
  /\ Get(in.v[v], "disable") = Bool(TRUE)
  /\ ~IsVirtual(in.v[r])
  /\ SameName(in.v[v], in.v[r])
  /\ "disable" \notin DOMAIN in.v[r].v

\* no item of the result has the name
Gone(name) == \A k \in 1..Len(result) : Get(result[k], "name") # name

\* the names of `before` lists that no item of the result has are ignored:
\* the result has the order of the run without them
GoneNamesIgnored ==
  \A j \in 1..Len(input.v) :
    \A k \in 1..Len(ListOf(input.v[j], "before")) :
      Gone(ListOf(input.v[j], "before")[k])
      => OrderOf(Arr(DropRef(input.v, j, "before", k)))
           = [threw |-> FALSE, names |-> NamesOf(result)]

\* a virtual item of the name of item v stands later in the input and sets
\* `disable` to a falsy value
EnabledLater(in, v) ==
  \E w \in v + 1..Len(in.v) :
    /\ IsVirtual(in.v[w])
    /\ SameName(in.v[v], in.v[w])
    /\ "disable" \in DOMAIN in.v[w].v
    /\ ~Truthy(Get(in.v[w], "disable"))

\* C28 as stated: a virtual item with disable: true removes every real item
\* of its name that does not set `disable` itself; the items removed are not
\* in the result, and a name left without an item is ignored in the `before`
\* lists of the others
C28_VirtualDisableRemoves ==
  pc = "done" =>
    /\ \A v, r \in 1..Len(input.v) : DisabledBy(input, v, r) => WhereId(result, r) = 0
    /\ GoneNamesIgnored

\* C28, amended: the same for a virtual item with disable: true after which
\* no virtual item of its name sets `disable` to a falsy value
C28_LastVirtualDisableRemoves ==
  pc = "done" =>
    /\ \A v, r \in 1..Len(input.v) :
         (DisabledBy(input, v, r) /\ ~EnabledLater(input, v)) => WhereId(result, r) = 0
    /\ GoneNamesIgnored

\* a real item named "a", a virtual one of its name with disable: true and an
\* item named "b" that lists "a" in `before`: the result is the item "b"
C28_Witness ==
  /\ pc = "done"
  /\ Len(input.v) = 3
  /\ DisabledBy(input, 2, 1)
  /\ ListOf(input.v[3], "before") = <<Str("a")>>
  /\ NamesOf(result) = <<"b">>
  /\ Get(result[1], "id") = Num(3)

(***************************************************************************)
(* C27: the order of the calls of normalize and finalize                   *)
(***************************************************************************)

\* the calls of normalize on the first n elements of the input, in order
NormalizedUpTo(n) == [k \in 1..n |-> <<"normalize", input.v[k]>>]

\* the arguments of the calls of finalize, in the order of the calls
Finalized ==
  LET fs == SelectSeq(calls, LAMBDA c : c[1] = "finalize")
  IN  [k \in 1..Len(fs) |-> fs[k][2]]

\* how many items of the sequence are the item, the names the sort pushed
\* onto `after` aside
TimesAmong(seq, item) ==
  Cardinality({k \in 1..Len(seq) : omit(seq[k], "after") = omit(item, "after")})

\* C27: in a run that returns, the calls are those of normalize, one for each
\* element of the input in input order, followed by those of finalize, one
\* for each item that reached the sort, in the order the sort gave them,
\* which is the order of the result; until the last stage, and in a run that
\* raises, the calls are calls of normalize on the first elements of the input
C27_CallbackOrder ==
  /\ pc = "done" =>
       /\ calls = NormalizedUpTo(Len(input.v))
                    \o [k \in 1..Len(Finalized) |-> <<"finalize", Finalized[k]>>]
       /\ Len(Finalized) = Len(SurvivorsOf(input))
       /\ \A k \in 1..Len(Finalized) :
            TimesAmong(Finalized, Finalized[k]) = TimesAmong(SurvivorsOf(input), Finalized[k])
       /\ Finalized = items
       /\ result = SelectSeq([k \in 1..Len(Finalized) |-> _finalize(Finalized[k])],
                             LAMBDA x : x # Undef)
  /\ pc \in {"schema", "virtuals", "disabled", "sort", "finalize"} =>
       calls = NormalizedUpTo(Len(input.v))
  /\ pc = "threw" =>
       \E n \in 0..Len(input.v) : calls = NormalizedUpTo(n)
  /\ pc \in {"run", "normalize"} => calls = <<>>

\* run(["a", null, {name: "b", before: ["a"], out: 2}]) with the normalize
\* that names strings and the finalize that returns `out`: three calls of
\* normalize, then finalize on b and on a; the result is [2]
C27_Witness ==
  /\ pc = "done"
  /\ normalize = "named" /\ finalize = "out"
  /\ Len(input.v) = 3
  /\ input.v[1] = Str("a") /\ input.v[2] = Null
  /\ Len(calls) = 5
  /\ calls[3] = <<"normalize", input.v[3]>>
  /\ NamesOf(Finalized) = <<"b", "a">>
  /\ result = <<Num(2)>>

(***************************************************************************)
(* C29: circular pipelines                                                 *)
(***************************************************************************)

\* the largest number of items of a pipeline
MaxPipelineItems == 2

PipelineNames == {"p", "q", "r"}

\* the items of a pipeline: a reference to a pipeline, a loader with
\* options, a loader without
PipelineItems ==
  {Obj([f \in {"pipeline"} |-> Str(n)]) : n \in PipelineNames}
    \cup {Obj([f \in {"loader", "options"} |->
                 IF f = "loader" THEN Str("l") ELSE Obj([g \in {"x"} |-> Num(1)])]),
          Obj([f \in {"loader"} |-> Str("m")])}

\* three pipelines of up to MaxPipelineItems items, and a rule that uses "p";
\* its loaders are sorted by a sorter made with the options of _loaders
InitRules ==
  /\ schema = Obj(NoProps) /\ defaultGroup = 500
  /\ normalize = "loader" /\ finalize = "loader"
  /\ input = Arr(<<>>) /\ items = <<>> /\ result = <<>>
  /\ error = "" /\ calls = <<>> /\ earlier = <<>> /\ pc = "done"
  /\ heap = <<>> /\ trace = <<>>
  /\ rule = "p"
  /\ use = Pending
  /\ \E len \in [PipelineNames -> 0..MaxPipelineItems] :
       \E its \in [PipelineNames -> [1..MaxPipelineItems -> PipelineItems]] :
         /\ \A n \in PipelineNames : \A k \in len[n] + 1..MaxPipelineItems :
              its[n][k] = Obj([f \in {"loader"} |-> Str("m")])
         /\ pipelines = [n \in PipelineNames |-> Arr(SubSeq(its[n], 1, len[n]))]

SpecRules == InitRules /\ [][NextRules]_vars

\* the pipelines that the pipeline refers to
RefsOf(n) ==
  IF n \notin DOMAIN pipelines THEN {}
  ELSE {Get(pipelines[n].v[k], "pipeline").v :
          k \in {j \in 1..Len(pipelines[n].v) : Get(pipelines[n].v[j], "pipeline").t = "str"}}

\* the pipelines reached from those of S by at least one reference
RECURSIVE ReachedFrom(_)
ReachedFrom(S) ==
  LET T == S \cup UNION {RefsOf(n) : n \in S}
  IN  IF T = S THEN UNION {RefsOf(n) : n \in S} ELSE ReachedFrom(T)

\* a pipeline reached from the rule's, or that one, refers to itself, directly
\* or through others
HasPipelineCycle ==
  \E n \in {rule} \cup ReachedFrom({rule}) : n \in ReachedFrom({n})

\* C29: resolving the pipeline of a rule ends; it never gives loaders when the
\* pipelines reached from the rule's have a cycle of references, and it does
\* not raise CIRCULAR_PIPELINE when they have none, also when a pipeline is
\* referred to twice
C29_CircularOnlyOnCycle ==
  use # Pending =>
    /\ HasPipelineCycle => use.threw # ""
    /\ ~HasPipelineCycle => use.threw # "CIRCULAR_PIPELINE"

(***************************************************************************)
(* C30: errors of the caller's normalize and finalize                      *)
(***************************************************************************)

\* the largest number of elements of an input of InitPlugins
MaxPlugins == 2

\* what getWebpackPlugins may be handed: a plugin to be required that is
\* installed, one that is not, one that brings its `plugin` and asks to stand
\* first, and a string where an object should be
PluginChoices ==
  {Obj([p \in {"name"} |-> Str("a")]),
   Obj([p \in {"name"} |-> Str("b")]),
   Obj([p \in {"name", "plugin", "group"} |->
          CASE p = "name" -> Str("d") [] p = "plugin" -> Str("D") [] p = "group" -> Num(100)]),
   Str("a")}

PluginInputs ==
  {Arr(elems) : elems \in UNION {[1..n -> PluginChoices] : n \in 0..MaxPlugins}}

\* the sorter of getWebpackPlugins, or one with the default callbacks
InitPlugins ==
  /\ InitRun
  /\ schema = Obj(NoProps)
  /\ defaultGroup = 500
  /\ \E callbacks \in {"plugin", "item"} : normalize = callbacks /\ finalize = callbacks
  /\ input \in PluginInputs

\* run() called a second time on the sorter, after the first call has
\* returned or thrown
RunAgain ==
  /\ pc \in {"done", "threw"}
  /\ earlier = <<>>
  /\ earlier' = Append(earlier, [input |-> input, threw |-> error, out |-> result])
  /\ input' \in PluginInputs
  /\ pc' = "run"
  /\ items' = <<>>
  /\ result' = <<>>
  /\ error' = ""
  /\ calls' = <<>>
  /\ UNCHANGED <<schema, defaultGroup, normalize, finalize>>
  /\ UNCHANGED <<mergeVars, rulesVars>>

NextPlugins == Next \/ RunAgain

SpecPlugins == InitPlugins /\ [][NextPlugins]_vars

\* what the callback called gave or threw
GivenBy(call) == IF call[1] = "normalize" THEN _normalize(call[2]) ELSE _finalize(call[2])

\* C30: when normalize or finalize throws, the call that threw is the last of
\* the run, the run ends with that very error and returns nothing; and a run
\* that follows a run that threw ends as a run of a new sorter on its input
C30_CallbackErrorsPropagate ==
  /\ \A k \in 1..Len(calls) :
       GivenBy(calls[k]).t = "thrown" =>
         /\ k = Len(calls)
         /\ pc = "threw"
         /\ error = GivenBy(calls[k]).v
         /\ result = <<>>
  /\ (pc \in {"done", "threw"} /\ \E k \in 1..Len(earlier) : earlier[k].threw # "") =>
       Outcome = run(input)

\* a first run that threw the error of finalize for the plugin "b", which is
\* not installed, and a second run on the same sorter that returned
C30_Witness ==
  /\ pc = "done"
  /\ Len(earlier) = 1
  /\ earlier[1].threw = "MODULE_NOT_FOUND"
  /\ earlier[1].out = <<>>
  /\ NamesOf(earlier[1].input.v) = <<"d", "b">>
  /\ result = <<Str("D"), Str("a")>>

====
